---- MODULE Spec2Model ----
(***************************************************************************)
(* State-machine model of the FrameIO integration scripts:                 *)
(*   - the batch upload loop of the Conform Uploader and the Shot Uploader *)
(*     (frame_io_uploader.upload_to_frameio and the methods it calls),     *)
(*   - the helpers of lib/frame_io_api.py (find_fio_asset, _retry_request, *)
(*     resolve_stack_root_id, version_asset).                              *)
(* Asset ids are naturals; Python's None is 0 (falsy, like None).  Names   *)
(* are sequences of one-character strings.                                 *)
(***************************************************************************)
EXTENDS Integers, Sequences, FiniteSets, TLC

\* ------------------------------------------------------------------ bounds
MaxFiles == 2
MaxHits == 2
MaxResults == 3
NumAssets == 2
MaxStemLen == 6
MaxProjects == 2

\* ------------------------------------------------------------ Python values
None == 0

Truthy(v) == v # None

\* ------------------------------------------------------------------ strings
\* str.startswith
StartsWith(name, prefix) ==
    /\ Len(prefix) <= Len(name)
    /\ SubSeq(name, 1, Len(prefix)) = prefix

\* str.lower, on the characters of the model's alphabet
LowerChar(c) == IF c = "A" THEN "a" ELSE IF c = "B" THEN "b" ELSE c

Lower(name) == [i \in 1..Len(name) |-> LowerChar(name[i])]

\* str.strip: the surrounding blanks removed
RECURSIVE Strip(_)
Strip(name) ==
    IF name = <<>> THEN name
    ELSE IF Head(name) = " " THEN Strip(Tail(name))
    ELSE IF name[Len(name)] = " " THEN Strip(SubSeq(name, 1, Len(name) - 1))
    ELSE name

\* sub in name
Contains(name, sub) ==
    \E i \in 0..(Len(name) - Len(sub)) : SubSeq(name, i + 1, i + Len(sub)) = sub

\* ------------------------------------------------- the service's assets
\* The assets a search of the project can return.  An asset's id is its
\* index in Catalog.  Asset 1 is a file that is a member of version stack 3
\* (its detail record carries version_stack.id = 3); asset 2 is a file in no
\* stack; asset 4 is the folder that holds them.
Catalog ==
    << [name |-> <<"a", "b">>, type |-> "file",          parent_id |-> 4,
        is_versioned |-> TRUE,  version_stack |-> 3,    original_asset_id |-> None],
       [name |-> <<"a">>,      type |-> "file",          parent_id |-> 4,
        is_versioned |-> FALSE, version_stack |-> None, original_asset_id |-> None],
       [name |-> <<"a">>,      type |-> "version_stack", parent_id |-> 4,
        is_versioned |-> FALSE, version_stack |-> None, original_asset_id |-> None],
       [name |-> <<"a">>,      type |-> "folder",        parent_id |-> None,
        is_versioned |-> FALSE, version_stack |-> None, original_asset_id |-> None] >>

AssetIds == DOMAIN Catalog

\* The two well-known folders and the assets the uploads create.
ConformsId == Len(Catalog) + 1
ShotsId == Len(Catalog) + 2
NewAssetId(cand) == Len(Catalog) + 2 + cand

\* The search keys derived from the candidates' file names.
BaseNames == { <<"a">>, <<"a", "b">> }

\* What a call to the client library can do.
Responses == {"ok", "APIError", "Exception"}
UploadResponses == {"id", "noid", "APIError", "Exception"}
LinkResponses == {"ok", "422", "APIError", "Exception"}

Variants == {"conform", "shot"}

\* The fallback folder of a variant.
FallbackId(v) == IF v = "conform" THEN ConformsId ELSE ShotsId

\* Search results: up to MaxHits assets in service order.
RECURSIVE SeqsUpTo(_, _)
SeqsUpTo(S, n) ==
    IF n = 0 THEN { <<>> }
    ELSE LET shorter == SeqsUpTo(S, n - 1)
         IN shorter \cup { Append(s, x) : s \in shorter, x \in S }

SearchResults == SeqsUpTo(AssetIds, MaxHits)

VARIABLES
    cfg,            \* the settings of config.xml
    export_set,     \* self.export_path / self.export_dir has been assigned
    variant,        \* which script runs: the Conform or the Shot Uploader
    pc,             \* position in upload_to_frameio
    project,        \* the service holds the project
    folders,        \* the well-known folders the service holds
    nfiles,         \* len(files_to_upload)
    idx,            \* the candidate being processed (files_uploaded_count)
    has_folder_attr,\* self.new_folder_id has been assigned
    new_folder_id,  \* self.new_folder_id
    match,          \* (asset_type, existing_asset_id, existing_asset_parent_id)
    new_asset,      \* newly_uploaded_asset['id']
    target,         \* target_conforms_folder_id / target_shots_folder_id
    calls,          \* the upload, version and create-folder calls made so far
    dialogs,        \* the error dialogs shown so far: {[cand, method]}
    api,            \* the last call of a lib/frame_io_api.py function and its result
    st              \* a run of FrameIO Get Status or FrameIO Set Status

vars == << cfg, export_set, variant, pc, project, folders, nfiles, idx, has_folder_attr,
           new_folder_id, match, new_asset, target, calls, dialogs, api, st >>

NoMatch == [type |-> "None", id |-> None, parent_id |-> None]

\* A logged call; an exception of either class is logged as "raised".
Call(op, cand, tgt, via, next, resp) ==
    [op |-> op, cand |-> cand, target |-> tgt, via |-> via, next |-> next,
     res |-> IF resp \in {"APIError", "Exception"} THEN "raised" ELSE resp]

Dialog(cand, method) == [cand |-> cand, method |-> method]

\* The settings read from config.xml: the token (missing, the placeholder of
\* the default file, or a real one), whether account_id and team_id are there,
\* and whether jobs_folder and preset_path_h264 are.
Configs == [token : {"missing", "placeholder", "real"}, account_id : BOOLEAN,
            team_id : BOOLEAN, paths : BOOLEAN]

ValidConfig == [token |-> "real", account_id |-> TRUE, team_id |-> TRUE, paths |-> TRUE]

\* Neither status script is running.
NoStatusRun == [script |-> "none"]

\* The service, the export directory and the object's fields before a run.
Fresh ==
    /\ variant \in Variants
    /\ project \in BOOLEAN
    /\ folders \in SUBSET {ConformsId, ShotsId}
    /\ (~project => folders = {})
    /\ nfiles \in 0..MaxFiles
    /\ idx = 0
    /\ has_folder_attr = FALSE
    /\ new_folder_id = None
    /\ match = NoMatch
    /\ new_asset = None
    /\ target = None
    /\ calls = <<>>
    /\ dialogs = {}
    /\ api = [fn |-> "none"]
    /\ st = NoStatusRun

\* A call of upload_to_frameio on an object whose config is loaded and whose
\* export path is set.
Init ==
    /\ cfg = ValidConfig
    /\ export_set = TRUE
    /\ pc = "get_project"
    /\ Fresh

\* ------------------------------------------------- lib/frame_io_api.py
\* What the GET of an asset's detail record can give: a JSON object ("ok"), a
\* body that parses to something else ("not_dict"), or a failure of the
\* request, of raise_for_status or of the JSON parse.
FetchFailures == {"network", "http", "bad_json"}

\* Mutant of resolve_stack_root_id: a failed fetch is raised to the caller.
resolve_stack_root_id_reraise(has_token, asset_id, resp) ==
    IF ~has_token \/ resp.status # "ok" THEN [raised |-> TRUE, id |-> None]
    ELSE IF resp.data.type = "version_stack" /\ ~resp.data.is_versioned
    THEN [raised |-> FALSE, id |-> asset_id]
    ELSE IF Truthy(resp.data.version_stack)
    THEN [raised |-> FALSE, id |-> resp.data.version_stack]
    ELSE IF Truthy(resp.data.original_asset_id)
    THEN [raised |-> FALSE, id |-> resp.data.original_asset_id]
    ELSE [raised |-> FALSE, id |-> asset_id]

\* Mutant of resolve_stack_root_id: the legacy original_asset_id is looked at
\* before the version_stack reference.
resolve_stack_root_id_legacy_first(has_token, asset_id, resp) ==
    IF ~has_token THEN [raised |-> TRUE, id |-> None]
    ELSE IF resp.status \in FetchFailures THEN [raised |-> FALSE, id |-> asset_id]
    ELSE IF resp.status = "not_dict" THEN [raised |-> TRUE, id |-> None]
    ELSE IF resp.data.type = "version_stack" /\ ~resp.data.is_versioned
    THEN [raised |-> FALSE, id |-> asset_id]
    ELSE IF Truthy(resp.data.original_asset_id)
    THEN [raised |-> FALSE, id |-> resp.data.original_asset_id]
    ELSE IF Truthy(resp.data.version_stack)
    THEN [raised |-> FALSE, id |-> resp.data.version_stack]
    ELSE [raised |-> FALSE, id |-> asset_id]

\* resolve_stack_root_id(cfg, asset_id), given whether cfg holds a token and
\* the answer to the GET: [raised, id].
resolve_stack_root_id(has_token, asset_id, resp) ==
    IF ~has_token THEN [raised |-> TRUE, id |-> None]
    ELSE IF resp.status \in FetchFailures THEN [raised |-> FALSE, id |-> asset_id]
    ELSE IF resp.status = "not_dict" THEN [raised |-> TRUE, id |-> None]
    ELSE IF resp.data.type = "version_stack" /\ ~resp.data.is_versioned
    THEN [raised |-> FALSE, id |-> asset_id]
    ELSE IF Truthy(resp.data.version_stack)
    THEN [raised |-> FALSE, id |-> resp.data.version_stack]
    ELSE IF Truthy(resp.data.original_asset_id)
    THEN [raised |-> FALSE, id |-> resp.data.original_asset_id]
    ELSE [raised |-> FALSE, id |-> asset_id]

\* The detail record the service gives for an asset of Catalog.
CatalogDetail(asset_id) == [status |-> "ok", data |-> Catalog[asset_id]]

\* ---- _retry_request
max_retries == 3
delay == 1

\* Mutant of RetryStatuses: every HTTP error status is retried.
RetryStatuses_every_status == 400..599

RetryStatuses == {429, 500, 502, 503, 504}

\* What one attempt of a request can do: a 2xx answer, an HTTPError raised by
\* raise_for_status, a ConnectionError, a Timeout, or another exception.
HttpErrorStatuses == {404, 422, 429, 501, 503}

AttemptOutcomes ==
    {[kind |-> "ok", status |-> 200]}
      \cup {[kind |-> k, status |-> 0] : k \in {"ConnectionError", "Timeout", "Exception"}}
      \cup {[kind |-> "http", status |-> c] : c \in HttpErrorStatuses}

\* Mutant of Pow2: a fixed wait, no doubling.
Pow2_fixed(n) == 1

RECURSIVE Pow2(_)
Pow2(n) == IF n = 0 THEN 1 ELSE 2 * Pow2(n - 1)

\* The for loop of _retry_request from attempt `attempt` (0-based) on, over
\* the outcomes outs[1..max_retries] of the attempts: the exception raised
\* ("none": a value was returned), the attempts made, the sleeps taken and the
\* outcome of the last attempt.
RECURSIVE retry_loop(_, _, _)
retry_loop(outs, attempt, sleeps) ==
    LET o == outs[attempt + 1]
        done(exc) == [exc |-> exc, ok |-> exc = "none", attempts |-> attempt + 1,
                      sleeps |-> sleeps, last |-> o]
        again == retry_loop(outs, attempt + 1, Append(sleeps, delay * Pow2(attempt)))
    IN IF o.kind = "ok" THEN done("none")
       ELSE IF o.kind \in {"ConnectionError", "Timeout"}
       THEN IF attempt < max_retries - 1 THEN again ELSE done("RuntimeError")
       ELSE IF o.kind = "http"
       THEN IF o.status \in RetryStatuses /\ attempt < max_retries - 1
            THEN again ELSE done("HTTPError")
       ELSE done("Exception")

_retry_request(outs) == retry_loop(outs, 0, <<>>)

AttemptSeqs == [1..max_retries -> AttemptOutcomes]

\* How a request made through _retry_request can end.
RequestOutcomes ==
    { [exc |-> _retry_request(outs).exc, ok |-> _retry_request(outs).ok,
       last |-> _retry_request(outs).last] : outs \in AttemptSeqs }

\* ---- get_fio_projects
\* The entries of the team's project list, and the name asked for.
ProjectNames == { <<"p">>, <<"q">> }
ProjectEntries == [type : {"project", "other"}, name : ProjectNames]
ProjectLists == SeqsUpTo(ProjectEntries, MaxProjects)

\* The entries of the list that are the project asked for.
ProjectMatches(data, project_name) ==
    { k \in DOMAIN data : data[k].type = "project" /\ data[k].name = project_name }

\* get_fio_projects(cfg, project_name), given how the list request ended and
\* the list it returned: the exception raised ("none": the call returned) and
\* the index of the returned project.
api_get_fio_projects(has_token, project_name, req, data) ==
    IF ~has_token \/ req.exc # "none"
    THEN [raised |-> "RuntimeError", found |-> None]
    ELSE LET hits == ProjectMatches(data, project_name) IN
         IF hits # {}
         THEN [raised |-> "none", found |-> CHOOSE k \in hits : \A j \in hits : k <= j]
         ELSE [raised |-> "RuntimeError", found |-> None]

\* ---- find_fio_asset
\* The names of the assets the search returns, and the names searched for.
Names == { <<>>, <<"a">>, <<"A">>, <<" ", "a">>, <<"a", "b">>, <<"b">> }
Queries == { <<"a">>, <<"A">>, <<" ", "a">> }
ItemTypes == {"file", "folder"}
Items == [name : Names, type : ItemTypes]
DataLists == SeqsUpTo(Items, MaxResults)

\* Mutant of pick_match: the partial match taken first.
pick_match_partial_first(exact_match, ci_match, partial_match) ==
    IF Truthy(partial_match) THEN partial_match
    ELSE IF Truthy(ci_match) THEN ci_match
    ELSE exact_match

\* item = exact_match or ci_match or partial_match
pick_match(exact_match, ci_match, partial_match) ==
    IF Truthy(exact_match) THEN exact_match
    ELSE IF Truthy(ci_match) THEN ci_match
    ELSE partial_match

\* The for loop over the search results from item k on; a match is the index
\* of the matching item (None: no match yet).
RECURSIVE find_loop(_, _, _, _, _, _)
find_loop(data, base_name, asset_type, k, ci_match, partial_match) ==
    IF k > Len(data) THEN pick_match(None, ci_match, partial_match)
    ELSE IF data[k].type # asset_type
    THEN find_loop(data, base_name, asset_type, k + 1, ci_match, partial_match)
    ELSE LET name == Strip(data[k].name)
             name_lower == Lower(name)
             base_lower == Lower(base_name)
             ci == IF name_lower = base_lower /\ ci_match = None THEN k ELSE ci_match
             partial == IF Contains(name_lower, base_lower) /\ partial_match = None
                        THEN k ELSE partial_match
         IN IF name = base_name THEN pick_match(k, ci_match, partial_match)
            ELSE find_loop(data, base_name, asset_type, k + 1, ci, partial)

\* Mutant of find_fio_asset: every failed request is reported as not found.
find_fio_asset_swallow(has_token, base_name, asset_type, req, data) ==
    IF ~req.ok \/ data = <<>> THEN [raised |-> "none", found |-> None]
    ELSE [raised |-> "none", found |-> find_loop(data, base_name, asset_type, 1, None, None)]

\* find_fio_asset(cfg, project_id, base_name, asset_type), given how the search
\* request ended and the results it returned: the exception raised ("none": the
\* call returned) and the index of the returned item (None: the call returned
\* (None, None, None)).
find_fio_asset(has_token, base_name, asset_type, req, data) ==
    IF ~has_token THEN [raised |-> "RuntimeError", found |-> None]
    ELSE IF req.exc = "RuntimeError" THEN [raised |-> "RuntimeError", found |-> None]
    ELSE IF req.exc # "none" THEN [raised |-> "none", found |-> None]
    ELSE IF data = <<>> THEN [raised |-> "none", found |-> None]
    ELSE [raised |-> "none",
          found |-> find_loop(data, base_name, asset_type, 1, None, None)]

\* ---- version_asset
\* Mutant of api_version_asset: a 422 answer is logged and the call returns.
api_version_asset_lenient(has_token, o) ==
    IF ~has_token THEN [raised |-> TRUE, warned |-> FALSE]
    ELSE IF o.kind = "http" /\ o.status = 422 THEN [raised |-> FALSE, warned |-> TRUE]
    ELSE [raised |-> o.kind # "ok", warned |-> FALSE]

\* version_asset(cfg, asset_id, next_asset_id), given the outcome of the POST:
\* whether it raised and whether it logged the 422 warning.
api_version_asset(has_token, o) ==
    IF ~has_token THEN [raised |-> TRUE, warned |-> FALSE]
    ELSE IF o.kind = "http"
    THEN [raised |-> TRUE, warned |-> o.status = 422]
    ELSE [raised |-> o.kind # "ok", warned |-> FALSE]

\* ---- the detail records of the service
DetailIds == 1..NumAssets

NoData == [type |-> "file", is_versioned |-> FALSE, version_stack |-> None,
           original_asset_id |-> None]

Details ==
    { [status |-> "ok", data |-> d] :
        d \in [type : {"file", "version_stack"}, is_versioned : BOOLEAN,
               version_stack : DetailIds \cup {None},
               original_asset_id : DetailIds \cup {None}] }
      \cup { [status |-> f, data |-> NoData] : f \in FetchFailures \cup {"not_dict"} }

\* resolve_stack_root_id against a service that answers svc[asset_id].
Resolve(has_token, svc, asset_id) ==
    resolve_stack_root_id(has_token, asset_id, svc[asset_id])

\* ------------------------------------------------------ the uploaders' methods
\* Mutant of create_fio_folder: the created folder's id is returned but not
\* stored in self.new_folder_id.
create_fio_folder_not_stored(v, nf, has, id, resp) ==
    IF resp = "ok"
    THEN [ret |-> id, nf |-> nf, has |-> has, dialog |-> FALSE]
    ELSE [ret |-> None, nf |-> nf, has |-> has, dialog |-> TRUE]

\* create_fio_folder: the state of self.new_folder_id after the call, the
\* returned folder id and whether an error dialog was shown.
create_fio_folder(v, nf, has, id, resp) ==
    IF resp = "ok"
    THEN [ret |-> id, nf |-> id, has |-> TRUE, dialog |-> FALSE]
    ELSE IF v = "shot" /\ resp = "APIError" /\ id = ShotsId
    THEN [ret |-> None, nf |-> None, has |-> TRUE, dialog |-> TRUE]
    ELSE [ret |-> None, nf |-> nf, has |-> has, dialog |-> TRUE]

\* find_conforms_folder / find_shots_folder: the folder's id, or None when the
\* service holds no such folder or the search raised.
find_folder(v, held, resp) ==
    IF resp = "ok" /\ FallbackId(v) \in held THEN FallbackId(v) ELSE None

\* The first search result whose name starts with base_name and whose type is
\* file or version_stack (0: none).
FirstHit(hits, base_name) ==
    LET ok == { k \in 1..Len(hits) :
                  /\ StartsWith(Catalog[hits[k]].name, base_name)
                  /\ Catalog[hits[k]].type \in {"file", "version_stack"} }
    IN IF ok = {} THEN 0 ELSE CHOOSE k \in ok : \A j \in ok : k <= j

FoundTuple(hits, base_name) ==
    LET k == FirstHit(hits, base_name)
    IN IF k = 0 THEN [kind |-> "tuple", m |-> NoMatch]
       ELSE [kind |-> "tuple",
             m |-> [type |-> Catalog[hits[k]].type, id |-> hits[k],
                    parent_id |-> Catalog[hits[k]].parent_id]]

\* find_a_fio_asset: a (type, id, parent_id) tuple, or None (kind "none") when
\* the catch_exception wrapper swallowed an exception.
find_a_fio_asset(v, resp, hits, base_name) ==
    IF resp = "ok" THEN FoundTuple(hits, base_name)
    ELSE IF v = "shot" /\ resp = "APIError"
    THEN [kind |-> "tuple", m |-> NoMatch]
    ELSE [kind |-> "none", m |-> NoMatch]

\* Mutant of version_asset: no catch_exception wrapper, the error reaches the
\* loop.
version_asset_unwrapped(v, resp) ==
    [raised |-> resp # "ok", dialog |-> FALSE]

\* version_asset: whether the call raised to the loop and whether it showed an
\* error dialog.
version_asset(v, resp) ==
    [raised |-> FALSE, dialog |-> resp # "ok"]

\* Mutant of existing_after_branch: the fallback is forced for every type but
\* version_stack.
existing_after_branch_forced(asset_type, existing_asset_id) ==
    IF asset_type = "version_stack" THEN existing_asset_id ELSE None

\* The value of existing_asset_id after the matched-asset branch.
existing_after_branch(asset_type, existing_asset_id) ==
    IF asset_type \in {"file", "version_stack"} THEN existing_asset_id ELSE None

\* Where the loop goes once the matched-asset branch is over.
AfterBranch(asset_type, existing_asset_id) ==
    IF Truthy(existing_after_branch(asset_type, existing_asset_id))
    THEN "loop" ELSE "fallback"

\* ---------------------------------------------------------------- actions
\* An exception reaches the catch_exception wrapper of upload_to_frameio.
Abort(where) ==
    /\ pc' = where
    /\ dialogs' = dialogs \cup {Dialog(idx, "upload_to_frameio")}

\* get_fio_projects, called first by upload_to_frameio.
GetFioProjects ==
    /\ pc = "get_project"
    /\ \E resp \in Responses, fr \in Responses :
         LET found == find_folder(variant, folders, fr) IN
         IF resp = "ok" /\ project
         THEN /\ pc' = "check_files"
              /\ new_folder_id' = found
              /\ has_folder_attr' = TRUE
              /\ dialogs' = dialogs \cup
                    (IF fr # "ok" THEN {Dialog(0, "find_folder")} ELSE {})
         ELSE IF resp = "ok" \/ (variant = "shot" /\ resp = "APIError")
         THEN /\ pc' = "create_project"
              /\ dialogs' = dialogs \cup
                    (IF resp # "ok" THEN {Dialog(0, "get_fio_projects")} ELSE {})
              /\ UNCHANGED << new_folder_id, has_folder_attr >>
         ELSE /\ pc' = "setup_failed"
              /\ dialogs' = dialogs \cup
                    (IF variant = "conform"
                     THEN {Dialog(0, "get_fio_projects"), Dialog(0, "upload_to_frameio")}
                     ELSE {Dialog(0, "upload_to_frameio")})
              /\ UNCHANGED << new_folder_id, has_folder_attr >>
    /\ UNCHANGED << api, st, cfg, export_set, variant, project, folders, nfiles, idx, match, new_asset,
                    target, calls >>

\* Mutant of after_create_project: the run goes on without a project.
after_create_project_goes_on(project_id) == "check_files"

\* upload_to_frameio after create_fio_project: without a project id the run
\* shows a dialog and returns.
after_create_project(project_id) ==
    IF Truthy(project_id) THEN "check_files" ELSE "setup_failed"

\* create_fio_project: the project, then its two folders.
CreateFioProject ==
    /\ pc = "create_project"
    /\ \E resp \in Responses, r1 \in Responses, r2 \in Responses :
         LET first  == IF variant = "conform" THEN ShotsId ELSE ConformsId
             second == IF variant = "conform" THEN ConformsId ELSE ShotsId
             c1 == create_fio_folder(variant, new_folder_id, has_folder_attr, first, r1)
             c2 == create_fio_folder(variant, c1.nf, c1.has, second, r2)
             made == (IF r1 = "ok" THEN {first} ELSE {})
                       \cup (IF r2 = "ok" THEN {second} ELSE {})
             shown == (IF c1.dialog THEN {Dialog(0, "create_fio_folder")} ELSE {})
                        \cup (IF c2.dialog THEN {Dialog(0, "create_fio_folder")} ELSE {})
         IN
         IF resp # "ok"
         THEN /\ pc' = after_create_project(None)
              /\ dialogs' = dialogs \cup {Dialog(0, "create_fio_project")}
              /\ UNCHANGED << project, folders, new_folder_id, has_folder_attr, calls >>
         ELSE /\ project' = TRUE
              /\ folders' = folders \cup made
              /\ new_folder_id' = c2.nf
              /\ has_folder_attr' = c2.has
              /\ calls' = calls \o
                    << Call("create_folder", 0, first, "setup", None, r1),
                       Call("create_folder", 0, second, "setup", None, r2) >>
              /\ IF variant = "conform" /\ ~Truthy(c2.ret)
                 THEN /\ pc' = after_create_project(None)
                      /\ dialogs' = dialogs \cup shown
                                      \cup {Dialog(0, "create_fio_project")}
                 ELSE /\ pc' = after_create_project(1)
                      /\ dialogs' = dialogs \cup shown
    /\ UNCHANGED << api, st, cfg, export_set, variant, nfiles, idx, match, new_asset, target >>

\* The export directory and its files: without an export path the run ends
\* (the Conform Uploader returns after a dialog, the Shot Uploader's read of
\* self.export_dir raises into the wrapper); without files it returns.
CheckFiles ==
    /\ pc = "check_files"
    /\ IF ~export_set
       THEN /\ pc' = "no_export_path"
            /\ dialogs' = dialogs \cup {Dialog(0, "upload_to_frameio")}
       ELSE /\ pc' = IF nfiles = 0 THEN "no_files" ELSE "loop"
            /\ UNCHANGED dialogs
    /\ UNCHANGED << api, st, cfg, export_set, variant, project, folders, nfiles, idx, has_folder_attr,
                    new_folder_id, match, new_asset, target, calls >>

\* The head of the for loop: the next file, or the end of the run.
NextCandidate ==
    /\ pc = "loop"
    /\ IF idx < nfiles
       THEN /\ idx' = idx + 1
            /\ pc' = "search"
            /\ match' = NoMatch
            /\ new_asset' = None
            /\ target' = None
       ELSE /\ pc' = "done"
            /\ UNCHANGED << idx, match, new_asset, target >>
    /\ UNCHANGED << api, st, cfg, export_set, variant, project, folders, nfiles, has_folder_attr,
                    new_folder_id, calls, dialogs >>

\* The search for an existing asset and the branch on its type.
FindAFioAsset ==
    /\ pc = "search"
    /\ \E resp \in Responses, hits \in SearchResults, base_name \in BaseNames :
         LET r == find_a_fio_asset(variant, resp, hits, base_name) IN
         IF r.kind = "none"
         THEN /\ pc' = "aborted"
              /\ dialogs' = dialogs \cup {Dialog(idx, "find_a_fio_asset"),
                                          Dialog(idx, "upload_to_frameio")}
              /\ UNCHANGED match
         ELSE /\ match' = r.m
              /\ dialogs' = dialogs \cup
                    (IF resp # "ok" THEN {Dialog(idx, "find_a_fio_asset")} ELSE {})
              /\ pc' = IF ~Truthy(r.m.id) THEN "fallback"
                       ELSE IF r.m.type = "file" THEN "upload_version"
                       ELSE IF r.m.type = "version_stack" THEN "upload_stack"
                       ELSE AfterBranch(r.m.type, r.m.id)
    /\ UNCHANGED << api, st, cfg, export_set, variant, project, folders, nfiles, idx, has_folder_attr,
                    new_folder_id, new_asset, target, calls >>

\* Mutant of upload_has_id: whatever the upload returned is taken as a new
\* asset.
upload_has_id_always(resp) == TRUE

\* newly_uploaded_asset and 'id' in newly_uploaded_asset
upload_has_id(resp) == resp = "id"

\* A matched file: the upload into its parent folder.
UploadVersion ==
    /\ pc = "upload_version"
    /\ \E resp \in UploadResponses :
         /\ calls' = Append(calls,
               Call("upload", idx, match.parent_id, "file_parent", None, resp))
         /\ IF upload_has_id(resp)
            THEN /\ new_asset' = NewAssetId(idx)
                 /\ pc' = "link"
                 /\ UNCHANGED dialogs
            ELSE IF resp = "noid"
            THEN /\ pc' = AfterBranch(match.type, match.id)
                 /\ dialogs' = dialogs \cup {Dialog(idx, "upload")}
                 /\ UNCHANGED new_asset
            ELSE /\ Abort("aborted")
                 /\ UNCHANGED new_asset
    /\ UNCHANGED << api, st, cfg, export_set, variant, project, folders, nfiles, idx, has_folder_attr,
                    new_folder_id, match, target >>

\* The version link of the matched file and the newly uploaded asset.
VersionAsset ==
    /\ pc = "link"
    /\ \E resp \in LinkResponses :
         LET r == version_asset(variant, resp) IN
         /\ calls' = Append(calls,
               Call("version", idx, match.id, "link", new_asset, resp))
         /\ IF r.raised
            THEN Abort("aborted")
            ELSE /\ pc' = AfterBranch(match.type, match.id)
                 /\ dialogs' = dialogs \cup
                       (IF r.dialog THEN {Dialog(idx, "version_asset")} ELSE {})
    /\ UNCHANGED << api, st, cfg, export_set, variant, project, folders, nfiles, idx, has_folder_attr,
                    new_folder_id, match, new_asset, target >>

\* A matched version stack: the upload into the stack.
UploadStack ==
    /\ pc = "upload_stack"
    /\ \E resp \in UploadResponses :
         /\ calls' = Append(calls, Call("upload", idx, match.id, "stack", None, resp))
         /\ IF resp \in {"APIError", "Exception"}
            THEN Abort("aborted")
            ELSE /\ pc' = AfterBranch(match.type, match.id)
                 /\ UNCHANGED dialogs
    /\ UNCHANGED << api, st, cfg, export_set, variant, project, folders, nfiles, idx, has_folder_attr,
                    new_folder_id, match, new_asset, target >>

\* No match: the fallback folder is taken from self.new_folder_id, or found,
\* or created.
FallbackFolder ==
    /\ pc = "fallback"
    /\ IF ~has_folder_attr
       THEN /\ Abort("aborted")
            /\ UNCHANGED << folders, has_folder_attr, new_folder_id, target, calls >>
       ELSE IF Truthy(new_folder_id)
       THEN /\ target' = new_folder_id
            /\ pc' = "upload_fallback"
            /\ UNCHANGED << folders, has_folder_attr, new_folder_id, calls, dialogs >>
       ELSE \E fr \in Responses, cr \in Responses :
            LET found == find_folder(variant, folders, fr)
                c == create_fio_folder(variant, new_folder_id, has_folder_attr,
                                       FallbackId(variant), cr)
                searched == IF fr # "ok" THEN {Dialog(idx, "find_folder")} ELSE {}
            IN
            IF Truthy(found)
            THEN /\ target' = found
                 /\ pc' = "upload_fallback"
                 /\ dialogs' = dialogs \cup searched
                 /\ UNCHANGED << folders, has_folder_attr, new_folder_id, calls >>
            ELSE /\ calls' = Append(calls,
                       Call("create_folder", idx, FallbackId(variant), "fallback", None, cr))
                 /\ folders' = folders \cup
                       (IF cr = "ok" THEN {FallbackId(variant)} ELSE {})
                 /\ new_folder_id' = c.nf
                 /\ has_folder_attr' = c.has
                 /\ target' = c.ret
                 /\ IF Truthy(c.ret)
                    THEN /\ pc' = "upload_fallback"
                         /\ dialogs' = dialogs \cup searched
                    ELSE /\ pc' = "loop"
                         /\ dialogs' = dialogs \cup searched
                               \cup {Dialog(idx, "create_fio_folder"),
                                     Dialog(idx, "fallback_folder")}
    /\ UNCHANGED << api, st, cfg, export_set, variant, project, nfiles, idx, match, new_asset >>

\* The upload of an unmatched file into the fallback folder.
UploadFallback ==
    /\ pc = "upload_fallback"
    /\ \E resp \in UploadResponses :
         /\ calls' = Append(calls, Call("upload", idx, target, "fallback", None, resp))
         /\ IF resp \in {"APIError", "Exception"}
            THEN Abort("aborted")
            ELSE /\ pc' = "loop"
                 /\ UNCHANGED dialogs
    /\ UNCHANGED << api, st, cfg, export_set, variant, project, folders, nfiles, idx, has_folder_attr,
                    new_folder_id, match, new_asset, target >>

Next ==
    \/ GetFioProjects
    \/ CreateFioProject
    \/ CheckFiles
    \/ NextCandidate
    \/ FindAFioAsset
    \/ UploadVersion
    \/ VersionAsset
    \/ UploadStack
    \/ FallbackFolder
    \/ UploadFallback

Spec == Init /\ [][Next]_vars

\* ------------------------------------------------ a run of the script
\* frame_io_uploader.__init__: the config is loaded, the selection exported
\* and upload_to_frameio called.
InitRun ==
    /\ cfg \in Configs
    /\ export_set = FALSE
    /\ pc = "config"
    /\ Fresh

\* config(): False when a setting is missing; a placeholder token only gives a
\* warning dialog.
config(c) ==
    LET loaded == c.token # "missing" /\ c.account_id /\ c.team_id /\ c.paths
    IN [ok |-> loaded, warned |-> loaded /\ c.token = "placeholder"]

Config ==
    /\ pc = "config"
    /\ IF config(cfg).ok
       THEN /\ pc' = IF variant = "conform" THEN "version_upper" ELSE "export_mp4"
            /\ dialogs' = dialogs \cup
                  (IF config(cfg).warned THEN {Dialog(0, "config_warning")} ELSE {})
       ELSE /\ pc' = "config_failed"
            /\ dialogs' = dialogs \cup {Dialog(0, "config")}
    /\ UNCHANGED << api, st, cfg, export_set, variant, project, folders, nfiles, idx,
                    has_folder_attr, new_folder_id, match, new_asset, target, calls >>

\* version_upper of the Conform Uploader: the project is looked up and the
\* selected clips searched for; every exception ends in a wrapper's dialog.
VersionUpper ==
    /\ pc = "version_upper"
    /\ \E resp \in Responses, fr \in Responses, sr \in Responses :
         LET found == find_folder(variant, folders, fr) IN
         IF resp = "ok" /\ project
         THEN /\ new_folder_id' = found
              /\ has_folder_attr' = TRUE
              /\ dialogs' = dialogs
                    \cup (IF fr # "ok" THEN {Dialog(0, "find_folder")} ELSE {})
                    \cup (IF sr # "ok" THEN {Dialog(0, "find_a_fio_asset"),
                                             Dialog(0, "version_upper")} ELSE {})
         ELSE /\ dialogs' = dialogs \cup
                    (IF resp # "ok" THEN {Dialog(0, "get_fio_projects")} ELSE {})
                    \cup {Dialog(0, "version_upper")}
              /\ UNCHANGED << new_folder_id, has_folder_attr >>
    /\ pc' = "check_export_path"
    /\ UNCHANGED << api, st, cfg, export_set, variant, project, folders, nfiles, idx,
                    match, new_asset, target, calls >>

\* __init__ of the Conform Uploader after version_upper: without
\* self.export_path the run halts, else upload_to_frameio is called.
CheckExportPath ==
    /\ pc = "check_export_path"
    /\ IF export_set
       THEN /\ pc' = "get_project"
            /\ UNCHANGED dialogs
       ELSE /\ pc' = "export_halted"
            /\ dialogs' = dialogs \cup {Dialog(0, "export_path")}
    /\ UNCHANGED << api, st, cfg, export_set, variant, project, folders, nfiles, idx,
                    has_folder_attr, new_folder_id, match, new_asset, target, calls >>

\* export_mp4 of the Shot Uploader, then the call of upload_to_frameio:
\* self.export_dir is assigned once the preset is found; a directory that
\* cannot be made holds no files.
ExportMp4 ==
    /\ pc = "export_mp4"
    /\ \E out \in {"ok", "no_preset", "mkdir_failed", "raised"} :
         /\ out = "mkdir_failed" => nfiles = 0
         /\ export_set' = (out # "no_preset")
         /\ dialogs' = dialogs \cup (IF out # "ok" THEN {Dialog(0, "export_mp4")} ELSE {})
    /\ pc' = "get_project"
    /\ UNCHANGED << api, st, cfg, variant, project, folders, nfiles, idx,
                    has_folder_attr, new_folder_id, match, new_asset, target, calls >>

NextRun ==
    \/ Config
    \/ VersionUpper
    \/ CheckExportPath
    \/ ExportMp4
    \/ Next

SpecRun == InitRun /\ [][NextRun]_vars

\* ------------------------------------------- calls of lib/frame_io_api.py
\* One call of a library function from a script; the uploader is not running.
InitApi ==
    /\ cfg = ValidConfig
    /\ export_set = TRUE
    /\ variant = "conform"
    /\ pc = "api"
    /\ project = FALSE
    /\ folders = {}
    /\ nfiles = 0
    /\ idx = 0
    /\ has_folder_attr = FALSE
    /\ new_folder_id = None
    /\ match = NoMatch
    /\ new_asset = None
    /\ target = None
    /\ calls = <<>>
    /\ dialogs = {}
    /\ api = [fn |-> "none"]
    /\ st = NoStatusRun

UploaderVars == << cfg, export_set, variant, pc, project, folders, nfiles, idx, has_folder_attr,
                   new_folder_id, match, new_asset, target, calls, dialogs, st >>

ApiFindFioAsset ==
    /\ api.fn = "none"
    /\ \E has_token \in BOOLEAN, base_name \in Queries, asset_type \in ItemTypes,
          req \in RequestOutcomes :
         \E data \in (IF has_token /\ req.ok THEN DataLists ELSE { <<>> }) :
            LET r == find_fio_asset(has_token, base_name, asset_type, req, data) IN
            api' = [fn |-> "find_fio_asset", has_token |-> has_token,
                    base_name |-> base_name, asset_type |-> asset_type,
                    req |-> req, data |-> data,
                    raised |-> r.raised, found |-> r.found]
    /\ UNCHANGED UploaderVars

ApiVersionAsset ==
    /\ api.fn = "none"
    /\ \E has_token \in BOOLEAN, o \in AttemptOutcomes :
         LET r == api_version_asset(has_token, o) IN
         api' = [fn |-> "version_asset", has_token |-> has_token, o |-> o,
                 raised |-> r.raised, warned |-> r.warned]
    /\ UNCHANGED UploaderVars

\* resolve_stack_root_id(x), then resolve_stack_root_id of its result, against
\* one state of the service: asset x has detail d1, every other asset d2.
ApiResolveStackRootId ==
    /\ api.fn = "none"
    /\ \E has_token \in BOOLEAN, x \in DetailIds, d1 \in Details, d2 \in Details :
         LET svc == [i \in DetailIds |-> IF i = x THEN d1 ELSE d2]
             r1 == Resolve(has_token, svc, x)
             r2 == IF r1.raised THEN r1 ELSE Resolve(has_token, svc, r1.id)
         IN api' = [fn |-> "resolve_stack_root_id", has_token |-> has_token,
                    x |-> x, d1 |-> d1, d2 |-> d2, first |-> r1, second |-> r2]
    /\ UNCHANGED UploaderVars

\* _retry_request(func) with the default max_retries and delay, func's
\* attempts ending as outs says.
ApiRetryRequest ==
    /\ api.fn = "none"
    /\ \E outs \in AttemptSeqs :
         LET r == _retry_request(outs) IN
         api' = [fn |-> "_retry_request", outs |-> outs, exc |-> r.exc,
                 attempts |-> r.attempts, sleeps |-> r.sleeps]
    /\ UNCHANGED UploaderVars

ApiGetFioProjects ==
    /\ api.fn = "none"
    /\ \E has_token \in BOOLEAN, project_name \in ProjectNames, req \in RequestOutcomes :
         \E data \in (IF has_token /\ req.ok THEN ProjectLists ELSE { <<>> }) :
            LET r == api_get_fio_projects(has_token, project_name, req, data) IN
            api' = [fn |-> "get_fio_projects", has_token |-> has_token,
                    project_name |-> project_name, req |-> req, data |-> data,
                    raised |-> r.raised, found |-> r.found]
    /\ UNCHANGED UploaderVars

NextApi ==
    \/ ApiRetryRequest
    \/ ApiGetFioProjects
    \/ ApiFindFioAsset
    \/ ApiVersionAsset
    \/ ApiResolveStackRootId

SpecApi == InitApi /\ [][NextApi]_vars

\* ------------------------------------- the search key of a candidate
\* File names are made of a letter, the letter v, a digit, the underscore and
\* the dot; a name is a stem followed by an extension or by nothing.
NameChars == {"s", "v", "1", "_", "."}
Extensions == { <<>>, <<".", "s">> }
FileNames == { stem \o ext : stem \in SeqsUpTo(NameChars, MaxStemLen), ext \in Extensions }

\* [a-zA-Z] and \d
IsLetter(c) == c \in {"s", "v", "V"}
IsDigit(c) == c \in {"1"}

\* A match of _[vV]\d+ starts at position i of name.
VersionAt(name, i) ==
    /\ i >= 1 /\ i + 2 <= Len(name)
    /\ name[i] = "_" /\ name[i + 1] \in {"v", "V"} /\ IsDigit(name[i + 2])

\* A match of _[a-zA-Z]*?_[vV]\d+ starts at position i of name.
ArtistVersionAt(name, i) ==
    /\ i >= 1 /\ i <= Len(name) /\ name[i] = "_"
    /\ \E j \in (i + 1)..Len(name) :
          /\ \A k \in (i + 1)..(j - 1) : IsLetter(name[k])
          /\ VersionAt(name, j)

\* os.path.splitext(name)[0]: the name up to its last dot, unless only dots
\* come before that dot.
splitext(name) ==
    LET dots == { i \in DOMAIN name : name[i] = "." } IN
    IF dots = {} THEN name
    ELSE LET d == CHOOSE i \in dots : \A j \in dots : j <= i IN
         IF \E j \in 1..(d - 1) : name[j] # "." THEN SubSeq(name, 1, d - 1) ELSE name

\* Mutant of conform_base_name: the name is cut at the first version marker.
conform_base_name_first_marker(name) ==
    LET starts == { i \in DOMAIN name : VersionAt(name, i) } IN
    IF starts # {}
    THEN SubSeq(name, 1, (CHOOSE i \in starts : \A j \in starts : i <= j) - 1)
    ELSE splitext(name)

\* base_name_for_search of the Conform Uploader: the name up to the last match
\* of (_[vV]\d+), or the name without its extension when there is no match.
conform_base_name(name) ==
    LET starts == { i \in DOMAIN name : VersionAt(name, i) } IN
    IF starts # {}
    THEN SubSeq(name, 1, (CHOOSE i \in starts : \A j \in starts : j <= i) - 1)
    ELSE splitext(name)

\* Mutant of shot_base_name: the artist letters are kept.
shot_base_name_keeps_artist(name) ==
    LET starts == { i \in DOMAIN name : VersionAt(name, i) } IN
    IF starts = {} THEN name
    ELSE SubSeq(name, 1, (CHOOSE i \in starts : \A j \in starts : i <= j) - 1)

\* base_name_for_search of the Shot Uploader:
\* re.split(r'_[a-zA-Z]*?_[vV]\d+', name)[0], the name up to the first match,
\* or the whole name when there is no match.
shot_base_name(name) ==
    LET starts == { i \in DOMAIN name : ArtistVersionAt(name, i) } IN
    IF starts = {} THEN name
    ELSE SubSeq(name, 1, (CHOOSE i \in starts : \A j \in starts : i <= j) - 1)

\* The derivation of the search key from a file name, in either uploader.
ConformBaseName ==
    /\ api.fn = "none"
    /\ \E name \in FileNames :
         api' = [fn |-> "base_name_for_search", variant |-> "conform",
                 file_name |-> name, base_name |-> conform_base_name(name)]
    /\ UNCHANGED UploaderVars

ShotBaseName ==
    /\ api.fn = "none"
    /\ \E name \in FileNames :
         api' = [fn |-> "base_name_for_search", variant |-> "shot",
                 file_name |-> name, base_name |-> shot_base_name(name)]
    /\ UNCHANGED UploaderVars

NextBaseName ==
    \/ ConformBaseName
    \/ ShotBaseName

SpecBaseName == InitApi /\ [][NextBaseName]_vars

\* ------------------------------------------------------------ observations
\* What the run reports when the loop has run to its end: the Conform Uploader
\* sets the progress text to the number of files processed, the Shot Uploader
\* prints its end banner.
summary(v, files_uploaded_count) ==
    IF v = "conform" THEN << "All", files_uploaded_count, "file(s) processed." >>
    ELSE << "End" >>

\* The candidate's pass through the loop body is over.
Finished(i) == i < idx \/ (i = idx /\ pc \in {"loop", "done", "aborted"})

UploadsOf(i) == { k \in DOMAIN calls : calls[k].op = "upload" /\ calls[k].cand = i }
LinksOf(i) == { k \in DOMAIN calls : calls[k].op = "version" /\ calls[k].cand = i }
DialogsOf(i) == { d \in dialogs : d.cand = i }

\* ------------------------------------------------------------------ claims
\* C1: when the run of the upload loop is over, every one of the nfiles
\* candidates has been visited, whatever failed on the way.
C1_EveryCandidateVisited ==
    pc \in {"done", "aborted"} => idx = nfiles

\* C2: a version link that fails with 422 after the candidate's upload
\* succeeded does not end the loop: a dialog records it for the candidate, the
\* candidate keeps its one successful upload and its one link attempt, and the
\* loop goes on from that candidate.
C2_Link422Contained ==
    \A k \in DOMAIN calls :
        (calls[k].op = "version" /\ calls[k].res = "422") =>
            LET c == calls[k].cand IN
            /\ Dialog(c, "version_asset") \in dialogs
            /\ Cardinality(UploadsOf(c)) = 1
            /\ \A u \in UploadsOf(c) : calls[u].res = "id" /\ u < k
            /\ LinksOf(c) = {k}
            /\ (idx = c => pc \in {"loop", "done"}
                             /\ Dialog(c, "upload_to_frameio") \notin dialogs)

\* C2 witness: a 422 link failure for a candidate, and a later candidate's
\* upload after it.
C2_Witness ==
    \E k \in DOMAIN calls, j \in DOMAIN calls :
        /\ calls[k].op = "version" /\ calls[k].res = "422"
        /\ j > k /\ calls[j].op = "upload" /\ calls[j].cand > calls[k].cand

\* ---- claims about lib/frame_io_api.py (SpecApi)
IsVersionCall == api.fn = "version_asset" /\ api.has_token
Is422 == api.o.kind = "http" /\ api.o.status = 422

Searched == api.fn = "find_fio_asset" /\ api.has_token /\ api.req.ok

\* The least index of a set of indices (None: the set is empty).
First(S) == IF S = {} THEN None ELSE CHOOSE k \in S : \A j \in S : k <= j

\* The three tiers over the raw names of all results.
RawTiers(data, q) ==
    LET exact == { k \in DOMAIN data : data[k].name = q }
        ci == { k \in DOMAIN data : Lower(data[k].name) = Lower(q) }
        partial == { k \in DOMAIN data : Contains(Lower(data[k].name), Lower(q)) }
    IN IF exact # {} THEN First(exact)
       ELSE IF ci # {} THEN First(ci)
       ELSE First(partial)

\* The three tiers over the results of the requested type, each name taken
\* without its surrounding blanks.
TypedStrippedTiers(data, q, t) ==
    LET typed == { k \in DOMAIN data : data[k].type = t }
        exact == { k \in typed : Strip(data[k].name) = q }
        ci == { k \in typed : Lower(Strip(data[k].name)) = Lower(q) }
        partial == { k \in typed : Contains(Lower(Strip(data[k].name)), Lower(q)) }
    IN IF exact # {} THEN First(exact)
       ELSE IF ci # {} THEN First(ci)
       ELSE First(partial)

\* C4 (as stated): for every query and every list of results, find_fio_asset
\* returns the first result whose name equals the query, else the first whose
\* name equals it case-insensitively, else the first that contains it.
C4_TiersOverAllResults ==
    Searched => api.found = RawTiers(api.data, api.base_name)

\* C4 (amended): the same three tiers, first in service order within a tier and
\* a higher tier anywhere in the list beating a lower one, but over the results
\* whose type is the requested asset_type only and with each result's name
\* compared after its surrounding whitespace is stripped.
C4_TiersOverTypedStripped ==
    Searched => api.found = TypedStrippedTiers(api.data, api.base_name, api.asset_type)

\* C4 witness: a partial match of the requested type comes first in the list
\* and the exact match after it is returned.
C4_Witness ==
    /\ Searched
    /\ api.found > 1
    /\ Strip(api.data[api.found].name) = api.base_name
    /\ api.data[1].type = api.asset_type
    /\ Contains(Lower(Strip(api.data[1].name)), Lower(api.base_name))

SearchFailed == api.fn = "find_fio_asset" /\ api.has_token /\ ~api.req.ok

IsResolveCall == api.fn = "resolve_stack_root_id" /\ api.has_token

\* C6: resolving the result of resolve_stack_root_id again, against the same
\* state of the service, gives the same result.
C6_ResolveIdempotent ==
    IsResolveCall => api.second = api.first

\* C7: when the fetch of the detail record fails (the request, its status or
\* the JSON parse), resolve_stack_root_id returns its input id and does not
\* raise.
C7_FetchFailureReturnsInput ==
    (IsResolveCall /\ api.d1.status \in FetchFailures) =>
        api.first = [raised |-> FALSE, id |-> api.x]

C7_Witness ==
    /\ IsResolveCall
    /\ api.d1.status = "bad_json"
    /\ api.first = [raised |-> FALSE, id |-> api.x]

\* C8: every version link call of the current candidate passes as its original
\* the stack root that resolve_stack_root_id gives for the matched asset.
C8_LinkUsesStackRoot ==
    \A k \in LinksOf(idx) :
        calls[k].target = resolve_stack_root_id(TRUE, match.id, CatalogDetail(match.id)).id

\* C9: a candidate gets at most one upload call, into the parent of the matched
\* file, into the matched stack or into a well-known folder according to the
\* match; a link call only follows a parent-folder upload; and a candidate that
\* finished without any error dialog got exactly one upload.
C9_OneTargetPerCandidate ==
    \A i \in 1..nfiles :
        /\ Cardinality(UploadsOf(i)) <= 1
        /\ \A u \in UploadsOf(i) :
              /\ calls[u].via \in {"file_parent", "stack", "fallback"}
              /\ (i = idx /\ calls[u].via = "file_parent") =>
                    (match.type = "file" /\ calls[u].target = match.parent_id)
              /\ (i = idx /\ calls[u].via = "stack") =>
                    (match.type = "version_stack" /\ calls[u].target = match.id)
              /\ calls[u].via = "fallback" =>
                    (calls[u].target \in {ConformsId, ShotsId}
                       /\ (i = idx => ~Truthy(match.id)))
        /\ \A l \in LinksOf(i) :
              \E u \in UploadsOf(i) : calls[u].via = "file_parent" /\ u < l
        /\ (Finished(i) /\ DialogsOf(i) = {}) => Cardinality(UploadsOf(i)) = 1

\* C9 witness: in one run a candidate went to every one of the three targets.
C9_Witness ==
    /\ pc = "done"
    /\ \E i \in 1..nfiles : \E u \in UploadsOf(i) : calls[u].via = "file_parent"
    /\ \E i \in 1..nfiles : \E u \in UploadsOf(i) : calls[u].via \in {"stack", "fallback"}
    /\ dialogs = {}

\* C10: when the upload of a matched file into the parent folder failed, the
\* candidate got exactly one further upload, into the fallback folder, by the
\* time its pass through the loop was over.
C10_FallbackAfterFailedUpload ==
    \A i \in 1..nfiles :
        (Finished(i) /\ \E u \in UploadsOf(i) :
                            calls[u].via = "file_parent" /\ calls[u].res # "id")
          => Cardinality({ u \in UploadsOf(i) : calls[u].via = "fallback" }) = 1

\* ---- C11
IsFallbackCreate(k) ==
    calls[k].op = "create_folder" /\ calls[k].target = FallbackId(variant)

\* C11: once a create call for the fallback folder has succeeded, the batch
\* issues no further create call for the fallback folder.
C11_FallbackCreatedOnce ==
    \A k \in DOMAIN calls, j \in DOMAIN calls :
        (k < j /\ IsFallbackCreate(k) /\ calls[k].res = "ok") => ~IsFallbackCreate(j)

\* C11 witness: the first candidate had the fallback folder created, and a later
\* unmatched candidate was uploaded into it.
C11_Witness ==
    \E k \in DOMAIN calls, j \in DOMAIN calls :
        /\ k < j
        /\ IsFallbackCreate(k) /\ calls[k].res = "ok" /\ calls[k].via = "fallback"
        /\ calls[j].op = "upload" /\ calls[j].via = "fallback"
        /\ calls[j].cand > calls[k].cand
        /\ calls[j].target = FallbackId(variant)

\* ---- C12, C13
IsRetryCall == api.fn = "_retry_request"

Failed(o) == o.kind # "ok"

\* C12: _retry_request makes at most 3 attempts, sleeps 1s after the first
\* failed attempt and 2s after the second when a retry follows, never sleeps
\* after its last attempt, raises when its last attempt failed and returns as
\* soon as an attempt succeeds.
C12_RetryBounded ==
    IsRetryCall =>
        /\ api.attempts \in 1..3
        /\ api.sleeps = SubSeq(<<1, 2>>, 1, api.attempts - 1)
        /\ \A k \in 1..(api.attempts - 1) : Failed(api.outs[k])
        /\ (api.exc # "none") <=> Failed(api.outs[api.attempts])

\* C12 witness: three failed attempts, two sleeps, and the error raised.
C12_Witness ==
    /\ IsRetryCall
    /\ api.attempts = 3 /\ api.sleeps = <<1, 2>>
    /\ api.exc = "RuntimeError"

\* A failure the claim calls transient: a connection error, a timeout, a 429
\* or any 5xx answer.
TransientAsStated(o) ==
    \/ o.kind \in {"ConnectionError", "Timeout"}
    \/ o.kind = "http" /\ (o.status = 429 \/ o.status \in 500..599)

\* A failure the code retries: a connection error, a timeout, or a 429, 500,
\* 502, 503 or 504 answer.
TransientAsCoded(o) ==
    \/ o.kind \in {"ConnectionError", "Timeout"}
    \/ o.kind = "http" /\ o.status \in {429, 500, 502, 503, 504}

\* C13 (as stated): an attempt is followed by another one exactly when it
\* failed with a connection error, a timeout, a 429 or any 5xx answer and
\* attempts remain; any other 4xx answer is raised after that attempt with no
\* sleep.
C13_RetriesEvery5xx ==
    IsRetryCall =>
        /\ \A k \in 1..api.attempts :
              (k < api.attempts) <=> (TransientAsStated(api.outs[k]) /\ k < max_retries)
        /\ (Failed(api.outs[1]) /\ ~TransientAsStated(api.outs[1])) =>
              (api.attempts = 1 /\ api.sleeps = <<>> /\ api.exc # "none")

\* C13 (amended): an attempt is followed by another one exactly when it failed
\* with a connection error, a timeout, or a 429, 500, 502, 503 or 504 answer and
\* attempts remain; every other failure (any other 4xx or 5xx answer, 501
\* included, or another exception) is raised after that attempt with no sleep.
C13_RetriesListedStatuses ==
    IsRetryCall =>
        /\ \A k \in 1..api.attempts :
              (k < api.attempts) <=> (TransientAsCoded(api.outs[k]) /\ k < max_retries)
        /\ (Failed(api.outs[1]) /\ ~TransientAsCoded(api.outs[1])) =>
              (api.attempts = 1 /\ api.sleeps = <<>> /\ api.exc # "none")

\* C13 witness: a 503 is retried and the 501 that follows is raised at once.
C13_Witness ==
    /\ IsRetryCall
    /\ api.outs[1] = [kind |-> "http", status |-> 503]
    /\ api.outs[2] = [kind |-> "http", status |-> 501]
    /\ api.attempts = 2 /\ api.sleeps = <<1>> /\ api.exc = "HTTPError"

\* ---- C14
\* C14: an upload call that raised (a network error of the upload reaches the
\* loop as an exception, like every other error of the call) is followed by a
\* retry, a further upload call for the same candidate, and the run of the
\* loop goes on to its end.
C14_FailedUploadRetried ==
    \A k \in DOMAIN calls :
        (calls[k].op = "upload" /\ calls[k].res = "raised" /\ Finished(calls[k].cand)) =>
            /\ \E j \in DOMAIN calls :
                  j > k /\ calls[j].op = "upload" /\ calls[j].cand = calls[k].cand
            /\ pc # "aborted"

\* ---- C15, C16
IsBaseNameCall == api.fn = "base_name_for_search"

\* The name reads <base>_<artist letters>_v<digits>.<ext> with the artist
\* starting after position i (the underscore that ends <base>).
ArtistVersionForm(name, i) ==
    /\ i >= 1 /\ i <= Len(name) /\ name[i] = "_"
    /\ \E j \in (i + 2)..Len(name), d \in DOMAIN name :
          /\ \A k \in (i + 1)..(j - 1) : IsLetter(name[k])
          /\ VersionAt(name, j)
          /\ d > j + 2 /\ d < Len(name) /\ name[d] = "."
          /\ \A k \in (j + 2)..(d - 1) : IsDigit(name[k])
          /\ \A k \in (d + 1)..Len(name) : IsLetter(name[k]) \/ IsDigit(name[k])

\* C15: for a file name <base>_<artist letters>_v<digits>.<ext> the derived
\* search base name is <base>.
C15_ArtistAndVersionStripped ==
    IsBaseNameCall =>
        \A i \in DOMAIN api.file_name :
            ArtistVersionForm(api.file_name, i) =>
                api.base_name = SubSeq(api.file_name, 1, i - 1)

HasVersionMarker(name) == \E i \in DOMAIN name : VersionAt(name, i)

\* C16: for a file name with no version marker the derived search base name is
\* the file name without its extension.
C16_ExtensionStripped ==
    (IsBaseNameCall /\ ~HasVersionMarker(api.file_name)) =>
        api.base_name = splitext(api.file_name)

\* ---- C17
\* The token, the account id or the team id is missing, or the token is the
\* placeholder.
BadCredentials(c) ==
    c.token \in {"missing", "placeholder"} \/ ~c.account_id \/ ~c.team_id

\* No request to the asset service has been made yet: the run is at or before
\* its first lookup (version_upper's in the Conform Uploader,
\* upload_to_frameio's in the Shot Uploader).
NoRequestYet ==
    \/ pc \in {"config", "config_failed", "version_upper", "export_mp4"}
    \/ variant = "shot" /\ pc = "get_project"

\* C17: with a missing token, account id or team id, or with the placeholder
\* token, no request to the asset service is made in the run: no project
\* lookup, no search, no upload.
C17_BadCredentialsNoRequest ==
    BadCredentials(cfg) => NoRequestYet /\ calls = <<>>

\* ---- C18
\* The search, upload, link and folder calls made for the candidates.
CandidateCalls == { k \in DOMAIN calls : calls[k].cand > 0 }

\* C18: when the setup is over and the project was neither found nor created,
\* the run has stopped at the setup: no candidate was taken up, none searched
\* for, none uploaded.
C18_NoProjectStopsRun ==
    (~project /\ pc \notin {"get_project", "create_project"}) =>
        /\ pc = "setup_failed"
        /\ idx = 0
        /\ CandidateCalls = {}
        /\ Dialog(0, "upload_to_frameio") \in dialogs
              \/ Dialog(0, "create_fio_project") \in dialogs

\* C18 witness: the project was not found, its creation failed, and the run of
\* a batch with files stopped.
C18_Witness ==
    /\ ~project /\ pc = "setup_failed" /\ nfiles > 0
    /\ Dialog(0, "create_fio_project") \in dialogs
    /\ idx = 0 /\ calls = <<>>

\* ---- C19
\* C19: when the list of projects was fetched and holds no project of the
\* requested name, get_fio_projects returns the not-found value and does not
\* raise.
C19_AbsentProjectNotRaised ==
    (/\ api.fn = "get_fio_projects" /\ api.has_token /\ api.req.ok
     /\ ProjectMatches(api.data, api.project_name) = {})
        => (api.raised = "none" /\ api.found = None)

\* ---- C20
\* The candidate ended failed or with a link warning: its upload gave no
\* asset, its link failed, or no fallback folder could be had for it.
EndedWithWarning(i) ==
    \/ Dialog(i, "upload") \in dialogs
    \/ Dialog(i, "version_asset") \in dialogs
    \/ Dialog(i, "fallback_folder") \in dialogs

\* C20: when the loop has run to its end and a candidate ended failed or with
\* a link warning, the summary reported differs from the summary of the same
\* batch processed without any failure.
C20_SummaryTellsWarnings ==
    (pc = "done" /\ \E i \in 1..nfiles : EndedWithWarning(i)) =>
        summary(variant, idx) # summary(variant, nfiles)

\* ---- C21
\* C21: a run of the Conform Uploader whose config loaded does not halt for a
\* missing export path: once it is past the export-path check, the export path
\* is set and upload_to_frameio has been called.
C21_ConformReachesUpload ==
    (/\ variant = "conform" /\ config(cfg).ok
     /\ pc \notin {"config", "version_upper", "check_export_path"})
        => (export_set /\ pc # "export_halted")

\* ------------------------------------------------------ frame_io_utils.py
\* A text of config.xml is a sequence of pieces; the placeholder token of the
\* default file starts with the piece "fio-x-xxxxxx".
PlaceholderPrefix == << "fio-x-xxxxxx" >>

RequiredKeys == {"token", "account_id", "team_id"}
OptionalKeys == {"jobs_folder", "preset_path_h264"}
Keys == RequiredKeys \cup OptionalKeys

\* The texts an element of <frame_io_settings> can hold.
TextsOf(key) ==
    IF key = "token" THEN { <<>>, << "fio-x-xxxxxx", "x" >>, << "a" >>, << "b" >> }
    ELSE IF key \in RequiredKeys THEN { <<>>, << "x" >>, << "a" >> }
    ELSE { << "x" >>, << "a" >> }

AllTexts == UNION { TextsOf(key) : key \in Keys }

NoSettings == [key \in {} |-> <<>>]

\* config.xml: not there, not readable, not XML, XML without the
\* <frame_io_settings> element, or that element with some of the keys.
ConfigFiles ==
    { [kind |-> k, settings |-> NoSettings] :
        k \in {"absent", "unreadable", "unparsable", "no_settings"} }
      \cup { [kind |-> "settings", settings |-> s] :
               s \in UNION { { f \in [D -> AllTexts] : \A key \in D : f[key] \in TextsOf(key) } :
                             D \in SUBSET Keys } }

\* The file create_default_frame_io_config writes.
DefaultFile ==
    [kind |-> "settings",
     settings |-> [key \in Keys |-> IF key = "token" THEN << "fio-x-xxxxxx", "x" >>
                                    ELSE << "x" >>]]

\* A Python value that is None or a text.
PyNone == [none |-> TRUE, text |-> <<>>]
PyText(t) == [none |-> FALSE, text |-> t]
TruthyText(v) == ~v.none /\ v.text # <<>>

\* Element.findtext(key)
findtext(settings, key) ==
    IF key \in DOMAIN settings THEN PyText(settings[key]) ELSE PyNone

NoValues == [key \in Keys |-> PyNone]

\* Mutant of load_frame_io_config: the placeholder token is not looked for.
load_frame_io_config_no_placeholder_check(file) ==
    IF file.kind = "unreadable" THEN [raised |-> "OSError", values |-> NoValues]
    ELSE IF file.kind \in {"absent", "unparsable", "no_settings"}
    THEN [raised |-> "ConfigurationError", values |-> NoValues]
    ELSE LET config_values == [key \in Keys |-> findtext(file.settings, key)] IN
         IF \E key \in RequiredKeys : ~TruthyText(config_values[key])
         THEN [raised |-> "ConfigurationError", values |-> NoValues]
         ELSE [raised |-> "none", values |-> config_values]

\* load_frame_io_config(config_xml_path): [raised, values], raised being the
\* class of the exception or "none".
load_frame_io_config(file) ==
    IF file.kind = "unreadable" THEN [raised |-> "OSError", values |-> NoValues]
    ELSE IF file.kind \in {"absent", "unparsable", "no_settings"}
    THEN [raised |-> "ConfigurationError", values |-> NoValues]
    ELSE LET config_values == [key \in Keys |-> findtext(file.settings, key)] IN
         IF \E key \in RequiredKeys : ~TruthyText(config_values[key])
         THEN [raised |-> "ConfigurationError", values |-> NoValues]
         ELSE IF TruthyText(config_values["token"])
                 /\ StartsWith(config_values["token"].text, PlaceholderPrefix)
         THEN [raised |-> "ConfigurationError", values |-> NoValues]
         ELSE [raised |-> "none", values |-> config_values]

\* What the file system lets create_default_frame_io_config do.
WriteOutcomes == {"written", "makedirs_failed", "open_failed"}

\* create_default_frame_io_config(config_xml_path): the file afterwards and
\* the value returned.
create_default_frame_io_config(file, w) ==
    IF w = "written" THEN [file |-> DefaultFile, ret |-> TRUE]
    ELSE [file |-> file, ret |-> FALSE]

\* What a wrapped function does when called: it returns a value, or raises an
\* APIError (whose response is None, or has or lacks a JSON body), a
\* ConfigurationError or another Exception.
ReturnValues == {"None", "True", "False", "Success", "dict"}

WrappedOutcomes ==
    { [kind |-> "return", value |-> v, response |-> "None"] : v \in ReturnValues }
      \cup { [kind |-> "APIError", value |-> "None", response |-> r] :
               r \in {"None", "json", "not_json"} }
      \cup { [kind |-> k, value |-> "None", response |-> "None"] :
               k \in {"ConfigurationError", "Exception"} }

\* Mutant of frame_io_api_exception_handler: only an APIError is handled.
frame_io_api_exception_handler_api_only(f) ==
    IF f.kind = "return" THEN [raised |-> FALSE, ret |-> f.value, dialog |-> FALSE]
    ELSE IF f.kind = "APIError" THEN [raised |-> FALSE, ret |-> "None", dialog |-> TRUE]
    ELSE [raised |-> TRUE, ret |-> "None", dialog |-> FALSE]

\* The wrapper frame_io_api_exception_handler puts around func.
frame_io_api_exception_handler(f) ==
    IF f.kind = "return" THEN [raised |-> FALSE, ret |-> f.value, dialog |-> FALSE]
    ELSE [raised |-> FALSE, ret |-> "None", dialog |-> TRUE]

UtilLoadFrameIoConfig ==
    /\ api.fn = "none"
    /\ \E file \in ConfigFiles :
         LET r == load_frame_io_config(file) IN
         api' = [fn |-> "load_frame_io_config", file |-> file,
                 raised |-> r.raised, values |-> r.values]
    /\ UNCHANGED UploaderVars

UtilExceptionHandler ==
    /\ api.fn = "none"
    /\ \E f \in WrappedOutcomes :
         LET r == frame_io_api_exception_handler(f) IN
         api' = [fn |-> "frame_io_api_exception_handler", func |-> f,
                 raised |-> r.raised, ret |-> r.ret, dialog |-> r.dialog]
    /\ UNCHANGED UploaderVars

NextUtils ==
    \/ UtilLoadFrameIoConfig
    \/ UtilExceptionHandler

SpecUtils == InitApi /\ [][NextUtils]_vars

\* ------------------------------ frame_io_get_status.py, frame_io_set_status.py
MaxItems == 2

\* A selected item: its colour label in Flame, and the label of the asset of
\* the service whose name is exactly the item's name ("none" for an asset
\* without a status, "absent" when the service holds no such asset).
ColourLabels == {"Approved", "Needs Review", "In Progress", "Other"}
FioLabels == {"approved", "needs_review", "in_progress", "none"}
SelectionItems == [colour : ColourLabels, asset : FioLabels \cup {"absent"}]
Selections == SeqsUpTo(SelectionItems, MaxItems)

\* A filled-in config.xml.
ValidSettings == [key \in Keys |-> << "a" >>]

\* The config files of the runs of a status script: no file, a file that is
\* unreadable or broken, the default file, and a filled-in file with some of
\* its required values missing.
StatusConfigFiles ==
    { f \in ConfigFiles : f.kind # "settings" \/ f = DefaultFile }
      \cup { [kind |-> "settings",
              settings |-> [key \in Keys \ D |-> ValidSettings[key]]] :
               D \in SUBSET RequiredKeys }

StatusRun(script, p, file) ==
    [script |-> script, pc |-> p, file |-> file, sel |-> <<>>, i |-> 0,
     updates |-> <<>>, dialogs |-> 0]

InitStatus ==
    /\ cfg = ValidConfig
    /\ export_set = TRUE
    /\ variant = "conform"
    /\ pc = "api"
    /\ project = FALSE
    /\ folders = {}
    /\ nfiles = 0
    /\ idx = 0
    /\ has_folder_attr = FALSE
    /\ new_folder_id = None
    /\ match = NoMatch
    /\ new_asset = None
    /\ target = None
    /\ calls = <<>>
    /\ dialogs = {}
    /\ api = [fn |-> "none"]
    /\ \/ st = StatusRun("get_status", "get_project",
                         [kind |-> "settings", settings |-> ValidSettings])
       \/ \E file \in StatusConfigFiles : st = StatusRun("set_status", "config", file)

OtherVars == << cfg, export_set, variant, pc, project, folders, nfiles, idx, has_folder_attr,
                new_folder_id, match, new_asset, target, calls, dialogs, api >>

\* ---- FrameIO Get Status
\* The values find_a_fio_asset and its caller handle: None, a dict (items are
\* its keys) or a tuple (items are its elements).
PyNoneValue == [kind |-> "None", items |-> <<>>, label |-> "none"]
EmptyTriple == [kind |-> "tuple", items |-> << "[]", "[]", "[]" >>, label |-> "none"]

\* find_a_fio_asset of FrameIO Get Status behind its catch_exception wrapper:
\* a dict of 'id' and 'label' for the asset of exactly that name, else None.
gs_find_a_fio_asset(asset, out) ==
    IF out = "raised" \/ asset = "absent" THEN PyNoneValue
    ELSE [kind |-> "dict", items |-> << "id", "label" >>, label |-> asset]

\* type, id, status = v: a TypeError for None, a ValueError unless v yields
\* three items; the dict yields its keys.
unpack3(v) ==
    IF v.kind = "None" \/ Len(v.items) # 3 THEN [raised |-> TRUE, status |-> "none"]
    ELSE [raised |-> FALSE, status |-> v.items[3]]

\* The colour label the loop gives an item for a status, the old one when the
\* status is none of the three.
colour_label_for(status, old) ==
    IF status = "approved" THEN "Approved"
    ELSE IF status = "needs_review" THEN "Needs Review"
    ELSE IF status = "in_progress" THEN "In Progress"
    ELSE old

\* sync_frameio_statuses_to_flame(selection) up to its loop.
GsGetFioProjects ==
    /\ st.script = "get_status" /\ st.pc = "get_project"
    /\ \E selection \in Selections, out \in {"found", "not_found", "raised"} :
         st' = [st EXCEPT !.sel = selection,
                          !.pc = IF out = "found" THEN "loop" ELSE "no_project",
                          !.dialogs = IF out = "found" THEN @ ELSE @ + 1]
    /\ UNCHANGED OtherVars

\* One item of the loop of sync_frameio_statuses_to_flame; an exception ends
\* the method in its catch_exception wrapper.
GsItem ==
    /\ st.script = "get_status" /\ st.pc = "loop"
    /\ IF st.i = Len(st.sel)
       THEN st' = [st EXCEPT !.pc = "done"]
       ELSE \E out \in {"ok", "raised"} :
              LET item == st.sel[st.i + 1]
                  search == gs_find_a_fio_asset(item.asset, out)
                  u == unpack3(search)
              IN IF search = EmptyTriple
                 THEN st' = [st EXCEPT !.i = @ + 1]
                 ELSE IF u.raised
                 THEN st' = [st EXCEPT !.pc = "raised",
                                       !.dialogs = @ + 1 + (IF out = "raised" THEN 1 ELSE 0)]
                 ELSE st' = [st EXCEPT !.i = @ + 1,
                                       !.sel[st.i + 1].colour =
                                           colour_label_for(u.status, item.colour)]
    /\ UNCHANGED OtherVars

\* ---- FrameIO Set Status
\* Mutant of already_has_status: the labels are never taken as equal.
already_has_status_never(current_fio_label, new_label) == FALSE

\* current_fio_label == new_label
already_has_status(current_fio_label, new_label) == current_fio_label = new_label

\* The status a colour label maps to, "none" when it maps to none.
new_label_for(selection_color_label) ==
    IF selection_color_label = "Approved" THEN "approved"
    ELSE IF selection_color_label = "Needs Review" THEN "needs_review"
    ELSE IF selection_color_label = "In Progress" THEN "in_progress"
    ELSE "none"

\* find_frame_io_asset_by_name behind frame_io_api_exception_handler.
find_frame_io_asset_by_name(asset, out) ==
    IF out = "raised" \/ asset = "absent" THEN [found |-> FALSE, label |-> "none"]
    ELSE [found |-> TRUE, label |-> asset]

\* __init__ of frame_io_set_status up to the call of
\* sync_flame_statuses_to_frameio.
SsConfig ==
    /\ st.script = "set_status" /\ st.pc = "config"
    /\ LET config_data == load_frame_io_config(st.file) IN
       IF config_data.raised = "ConfigurationError"
       THEN \E w \in WriteOutcomes :
              st' = [st EXCEPT !.file = create_default_frame_io_config(st.file, w).file,
                               !.pc = "config_failed",
                               !.dialogs = @ + 2]
       ELSE IF config_data.raised # "none"
       THEN st' = [st EXCEPT !.pc = "config_failed", !.dialogs = @ + 1]
       ELSE IF \/ ~TruthyText(config_data.values["token"])
               \/ StartsWith(config_data.values["token"].text, PlaceholderPrefix)
       THEN st' = [st EXCEPT !.pc = "config_failed", !.dialogs = @ + 1]
       ELSE \E client \in {"ok", "raised"} :
              st' = [st EXCEPT !.pc = IF client = "ok" THEN "get_project"
                                      ELSE "config_failed",
                               !.dialogs = IF client = "ok" THEN @ ELSE @ + 1]
    /\ UNCHANGED OtherVars

\* sync_flame_statuses_to_frameio(selection) up to its loop.
SsGetProjectDetails ==
    /\ st.script = "set_status" /\ st.pc = "get_project"
    /\ \E selection \in Selections, out \in {"found", "not_found", "raised"} :
         st' = [st EXCEPT !.sel = selection,
                          !.pc = IF out = "found" THEN "loop" ELSE "no_project",
                          !.dialogs = IF out = "raised" THEN @ + 1 ELSE @]
    /\ UNCHANGED OtherVars

\* One item of the loop of sync_flame_statuses_to_frameio.
SsItem ==
    /\ st.script = "set_status" /\ st.pc = "loop"
    /\ IF st.i = Len(st.sel)
       THEN st' = [st EXCEPT !.pc = "done"]
       ELSE \E s \in {"ok", "raised"}, u \in {"ok", "raised"} :
              LET item == st.sel[st.i + 1]
                  new_label == new_label_for(item.colour)
                  asset_info == find_frame_io_asset_by_name(item.asset, s)
              IN IF new_label = "none"
                 THEN st' = [st EXCEPT !.i = @ + 1]
                 ELSE IF ~asset_info.found
                 THEN st' = [st EXCEPT !.i = @ + 1,
                                       !.dialogs = IF s = "raised" THEN @ + 1 ELSE @]
                 ELSE IF already_has_status(asset_info.label, new_label)
                 THEN st' = [st EXCEPT !.i = @ + 1]
                 ELSE st' = [st EXCEPT !.i = @ + 1,
                                       !.updates = Append(@, [item |-> st.i + 1,
                                                              label |-> new_label,
                                                              res |-> u]),
                                       !.dialogs = IF u = "raised" THEN @ + 1 ELSE @]
    /\ UNCHANGED OtherVars

NextStatus ==
    \/ GsGetFioProjects
    \/ GsItem
    \/ SsConfig
    \/ SsGetProjectDetails
    \/ SsItem

SpecStatus == InitStatus /\ [][NextStatus]_vars

\* ---- C22
\* The items of the selection the loop has gone through without an exception.
GsOver == st.script = "get_status" /\ st.pc \in {"done", "raised"}

\* C22: when FrameIO Get Status is over, every selected item whose same-named
\* asset has the label approved, needs_review or in_progress carries the
\* colour label Approved, Needs Review or In Progress, whatever the items
\* before it in the selection were.
C22_SelectionColourCoded ==
    GsOver =>
        \A k \in DOMAIN st.sel :
            st.sel[k].asset \in {"approved", "needs_review", "in_progress"}
                => st.sel[k].colour = colour_label_for(st.sel[k].asset, "Other")

\* ---- C23
IsHandlerCall == api.fn = "frame_io_api_exception_handler"

\* C23: a function wrapped by frame_io_api_exception_handler raises nothing to
\* its caller: the wrapper returns None when the function raised an APIError,
\* a ConfigurationError or another Exception, and the function's own result
\* when it raised nothing.
C23_HandlerNeverPropagates ==
    IsHandlerCall =>
        /\ ~api.raised
        /\ api.func.kind = "return" => api.ret = api.func.value
        /\ api.func.kind \in {"APIError", "ConfigurationError", "Exception"}
               => api.ret = "None"

C23_Witness ==
    /\ IsHandlerCall
    /\ api.func.kind = "Exception"
    /\ ~api.raised
    /\ api.ret = "None"

\* ---- C24
IsLoadCall == api.fn = "load_frame_io_config"

\* The file has no value for the key: no element, or an empty one.
Lacks(file, key) == key \notin DOMAIN file.settings \/ file.settings[key] = <<>>

\* C24: load_frame_io_config raises ConfigurationError for the default file
\* and for a file that lacks token, account_id or team_id; for a file with a
\* token that is no placeholder and the other required values it returns the
\* stored values as they are, None for an optional key that is not there.
C24_LoadFrameIoConfig ==
    IsLoadCall =>
        /\ api.file = DefaultFile => api.raised = "ConfigurationError"
        /\ (api.file.kind = "settings" /\ \E key \in RequiredKeys : Lacks(api.file, key))
               => api.raised = "ConfigurationError"
        /\ (/\ api.file.kind = "settings"
            /\ \A key \in RequiredKeys : ~Lacks(api.file, key)
            /\ ~StartsWith(api.file.settings["token"], PlaceholderPrefix))
               => /\ api.raised = "none"
                  /\ \A key \in Keys :
                       IF key \in DOMAIN api.file.settings
                       THEN api.values[key] = PyText(api.file.settings[key])
                       ELSE api.values[key] = PyNone

C24_Witness ==
    /\ IsLoadCall
    /\ api.file.kind = "settings"
    /\ DOMAIN api.file.settings = Keys \ {"jobs_folder"}
    /\ api.file.settings["token"] = << "b" >>
    /\ api.raised = "none"
    /\ api.values["token"] = PyText(<< "b" >>)
    /\ api.values["jobs_folder"] = PyNone

\* ---- C25
\* C25: when the detail fetch succeeds, resolve_stack_root_id gives the input
\* id for an un-versioned version_stack; else the version_stack id when there
\* is one; else the original_asset_id when there is one; else the input id.
C25_ResolvePrecedence ==
    (IsResolveCall /\ api.has_token /\ api.d1.status = "ok") =>
        LET d == api.d1.data
            case1 == d.type = "version_stack" /\ ~d.is_versioned
            case2 == d.version_stack # None
            case3 == d.original_asset_id # None
        IN /\ ~api.first.raised
           /\ case1 => api.first.id = api.x
           /\ (~case1 /\ case2) => api.first.id = d.version_stack
           /\ (~case1 /\ ~case2 /\ case3) => api.first.id = d.original_asset_id
           /\ (~case1 /\ ~case2 /\ ~case3) => api.first.id = api.x

C25_Witness ==
    /\ IsResolveCall /\ api.has_token /\ api.d1.status = "ok"
    /\ api.d1.data.type = "file"
    /\ api.d1.data.version_stack # None
    /\ api.d1.data.original_asset_id # None
    /\ api.d1.data.original_asset_id # api.d1.data.version_stack
    /\ api.first.id = api.d1.data.version_stack

\* ---- C26
\* The places of the name where a version marker _v<digits> starts.
MarkerStarts(name) == { i \in DOMAIN name : VersionAt(name, i) }

LastOf(starts) == CHOOSE i \in starts : \A j \in starts : j <= i

\* C26: for a file name with several version markers, the search base name is
\* the part of the name before the last marker.
C26_CutAtLastMarker ==
    (IsBaseNameCall /\ Cardinality(MarkerStarts(api.file_name)) >= 2) =>
        api.base_name =
            SubSeq(api.file_name, 1, LastOf(MarkerStarts(api.file_name)) - 1)

\* ---- C27
\* C27: in the Shot Uploader self.new_folder_id is None or the id of the SHOTS
\* folder, and an unmatched candidate is uploaded into no other folder than
\* SHOTS.
C27_ShotFallbackIsShots ==
    variant = "shot" =>
        /\ new_folder_id \in {None, ShotsId}
        /\ \A k \in DOMAIN calls :
              (calls[k].op = "upload" /\ calls[k].via = "fallback")
                  => calls[k].target = ShotsId

\* ---- C30
IsLink(k) == calls[k].op = "version"

\* C30: a version-link call of a candidate comes after that candidate's upload
\* into the matched file's parent folder returned a new asset id, and links
\* that id; a candidate whose upload went into a stack or a well-known folder,
\* or returned no id, gets no link call.
C30_LinkAfterUploadId ==
    /\ \A l \in DOMAIN calls :
          IsLink(l) =>
              /\ \E u \in 1..(l - 1) :
                    /\ calls[u].op = "upload"
                    /\ calls[u].cand = calls[l].cand
                    /\ calls[u].via = "file_parent"
                    /\ calls[u].res = "id"
              /\ calls[l].next = NewAssetId(calls[l].cand)
    /\ \A i \in 1..nfiles :
          (\E u \in UploadsOf(i) : calls[u].via # "file_parent" \/ calls[u].res # "id")
              => LinksOf(i) = {}

C30_Witness ==
    /\ \E l \in DOMAIN calls : IsLink(l) /\ calls[l].next = NewAssetId(calls[l].cand)
    /\ \E u \in DOMAIN calls :
          /\ calls[u].op = "upload" /\ calls[u].via = "file_parent"
          /\ calls[u].res = "noid"
          /\ Finished(calls[u].cand)
          /\ LinksOf(calls[u].cand) = {}

\* ---- C28
\* C28: a run of FrameIO Set Status leaves a config.xml that exists as it is.
C28_ExistingConfigUnchanged ==
    [][(st.script = "set_status" /\ st.file.kind # "absent") => st'.file = st.file]_vars

\* ---- C29
IsSetStatus == st.script = "set_status"

\* C29: FrameIO Set Status makes an update request for an item only when its
\* colour label maps to a status, the asset of its name is found and the
\* asset's label is not that status; the request carries the mapped status,
\* an item gets at most one request, and the loop goes through every item.
C29_UpdateOnlyWhenDiffers ==
    IsSetStatus =>
        /\ \A n \in DOMAIN st.updates :
              LET k == st.updates[n].item
                  mapped == new_label_for(st.sel[k].colour)
              IN /\ k <= st.i
                 /\ mapped # "none"
                 /\ st.sel[k].asset # "absent"
                 /\ st.sel[k].asset # mapped
                 /\ st.updates[n].label = mapped
        /\ \A n, m \in DOMAIN st.updates :
              st.updates[n].item = st.updates[m].item => n = m
        /\ st.pc = "done" => st.i = Len(st.sel)

C29_Witness ==
    /\ IsSetStatus /\ st.pc = "done"
    /\ Len(st.sel) = 2
    /\ st.sel[1] = [colour |-> "Approved", asset |-> "approved"]
    /\ st.sel[2] = [colour |-> "Needs Review", asset |-> "approved"]
    /\ st.updates = << [item |-> 2, label |-> "needs_review", res |-> "ok"] >>

====
